---- MODULE Spec2Model ----
(***************************************************************************)
(* Model of the multi-tag browse page of fairplay-reviews                  *)
(* (src/frontend/src/app/tags/page.tsx, component BrowseTagsContent): the  *)
(* tag selection state machine, the search requests it issues to the       *)
(* catalog and the handling of their responses.                            *)
(***************************************************************************)
EXTENDS Integers, Sequences, FiniteSets, TLC

(***************************************************************************)
(* Bounds and environment data                                             *)
(***************************************************************************)

\* Number of search requests issued in one behaviour.
MaxRequests == 2

\* The tag vocabulary the catalog returns from GET /tags.
TagData ==
  << [id |-> 1, name |-> "Action"], [id |-> 2, name |-> "Horror"] >>

\* Tag ids a direct caller of handleTagClick passes: an id of TagData and an
\* id that no tag of the vocabulary has.
CallerIds == {1, 3}

\* Values of searchParams.get('tags'): <<>> is null (no parameter), the
\* others are a name of the vocabulary and a name that is not in it.
UrlTags == { <<>>, <<"Action">>, <<"RPG">> }

\* Number of items of a catalog the bucketing engine is run on.
MaxItems == 3

\* The tag names the items of those catalogs carry.
EngineTags == {"Action", "Horror", "Indie"}

\* The catalog the search endpoint answers from: item id and tag names.
Catalog ==
  { [id |-> 1, tags |-> {"Action"}],
    [id |-> 2, tags |-> {"Action", "Horror"}],
    [id |-> 3, tags |-> {"Action", "Horror"}] }

(***************************************************************************)
(* State                                                                   *)
(***************************************************************************)
VARIABLES
  allTags,            \* useState<Tag[]>: sequence of tags
  selectedTags,       \* useState<Map<number, TagSelectionState>>: sequence of
                      \* entries [key, value] in insertion order
  searchResults,      \* useState<{[key: number]: Game[]}>: function from
                      \* missing counts to sequences of item ids
  loading,            \* useState(true)
  searching,          \* useState(false)
  expandedSections,   \* useState<Set<number>>
  totalRequiredTags,  \* useState(0)
  urlTag,             \* searchParams.get('tags'), an element of UrlTags
  tagsFetch,          \* "pending" while GET /tags is outstanding, then "done"
  timer,              \* the setTimeout of the auto-search: "idle", "armed", "fired"
  inflight,           \* the outstanding fetches of performSearch
  issued,             \* number of performSearch calls made so far
  lastOp,             \* history: the step taken last, [op, arg, info]
  newestOk,           \* history: the newest request answered ok so far, and
                      \* what its response stored: [seq, results, total]
  engine,             \* the search endpoint taken alone: a catalog, a query
                      \* and the answer computed for it (SpecEngine)
  tracksIssue         \* history: whether a request records what was stored
                      \* when it was issued (SpecAtIssue)

prog == << allTags, selectedTags, searchResults, loading, searching,
           expandedSections, totalRequiredTags, urlTag, tagsFetch, timer,
           inflight, issued >>
hist == << lastOp, newestOk, tracksIssue >>
vars == << prog, hist, engine,
                  tracksIssue >>

(***************************************************************************)
(* Map<number, TagSelectionState> as an insertion-ordered entry sequence   *)
(***************************************************************************)
EmptyMap == << >>

MapHas(m, k) == \E i \in 1..Len(m) : m[i].key = k

\* Map.prototype.get, with undefined written "undefined".
MapGet(m, k) ==
  IF MapHas(m, k)
    THEN m[CHOOSE i \in 1..Len(m) : m[i].key = k].value
    ELSE "undefined"

\* Mutant of MapSet: every set appends an entry, also for a key that is there.
MapSet_appends(m, k, v) == Append(m, [key |-> k, value |-> v])

\* Map.prototype.set: an existing key keeps its position, a new key is
\* appended.
MapSet(m, k, v) ==
  IF MapHas(m, k)
    THEN [i \in 1..Len(m) |-> IF m[i].key = k THEN [key |-> k, value |-> v] ELSE m[i]]
    ELSE Append(m, [key |-> k, value |-> v])

\* Map.prototype.delete.
MapDelete(m, k) == SelectSeq(m, LAMBDA e : e.key # k)

MapKeys(m) == { m[i].key : i \in 1..Len(m) }

\* The SelectionState of a tag: absence of an entry is "none".
StateOf(m, k) == IF MapGet(m, k) = "undefined" THEN "none" ELSE MapGet(m, k)

(***************************************************************************)
(* Pure helpers of the page                                                *)
(***************************************************************************)

\* allTags.find((t) => t.id === tagId): the first tag with that id, as a
\* sequence of length 1, or << >> when find returns undefined.
FindTagById(tags, tagId) ==
  LET hits == SelectSeq(tags, LAMBDA t : t.id = tagId)
  IN  IF Len(hits) = 0 THEN << >> ELSE << hits[1] >>

\* data.find((tag) => tag.name === preSelectedTagName)
FindTagByName(tags, tagName) ==
  LET hits == SelectSeq(tags, LAMBDA t : t.name = tagName)
  IN  IF Len(hits) = 0 THEN << >> ELSE << hits[1] >>

\* Mutant of NamesInState: the loop stops after the first entry it finds.
NamesInState_stopsAtFirst(sel, tags, st) ==
  LET hits == SelectSeq(sel, LAMBDA e : e.value = st /\ FindTagById(tags, e.key) # << >>)
  IN  IF Len(hits) = 0 THEN << >> ELSE << FindTagById(tags, hits[1].key)[1].name >>

\* The forEach of searchGames for one SelectionState: the names, in the
\* Map's iteration order, of the entries in that state whose id is found in
\* allTags.
NamesInState(sel, tags, st) ==
  LET hits == SelectSeq(sel, LAMBDA e : e.value = st /\ FindTagById(tags, e.key) # << >>)
  IN  [i \in 1..Len(hits) |-> FindTagById(tags, hits[i].key)[1].name]

includedTagsOf(sel, tags) == NamesInState(sel, tags, "include")
excludedTagsOf(sel, tags) == NamesInState(sel, tags, "exclude")

\* includedCount and excludedCount of the render.
CountInState(sel, st) == Len(SelectSeq(sel, LAMBDA e : e.value = st))

\* Mutant of nextSelectedTags: an included tag is deselected at once.
nextSelectedTags_skipsExclude(prev, tagId) ==
  IF MapGet(prev, tagId) = "undefined" THEN MapSet(prev, tagId, "include")
  ELSE MapDelete(prev, tagId)

\* Mutant of nextSelectedTags: an excluded tag goes back to include.
nextSelectedTags_neverClears(prev, tagId) ==
  IF MapGet(prev, tagId) = "include" THEN MapSet(prev, tagId, "exclude")
  ELSE MapSet(prev, tagId, "include")

\* Mutant of nextSelectedTags: the new Map starts empty instead of as a copy
\* of prev, so only the clicked tag stays selected.
nextSelectedTags_startsEmpty(prev, tagId) ==
  LET currentState == IF MapGet(prev, tagId) = "undefined" THEN "none" ELSE MapGet(prev, tagId)
  IN  IF currentState = "none" THEN MapSet(EmptyMap, tagId, "include")
      ELSE IF currentState = "include" THEN MapSet(EmptyMap, tagId, "exclude")
      ELSE EmptyMap

\* Mutant of nextSelectedTags: an excluded tag is set to "none" instead of
\* being deleted.
nextSelectedTags_storesNone(prev, tagId) ==
  LET currentState == IF MapGet(prev, tagId) = "undefined" THEN "none" ELSE MapGet(prev, tagId)
  IN  IF currentState = "none" THEN MapSet(prev, tagId, "include")
      ELSE IF currentState = "include" THEN MapSet(prev, tagId, "exclude")
      ELSE MapSet(prev, tagId, "none")

\* The updater handleTagClick passes to setSelectedTags.
nextSelectedTags(prev, tagId) ==
  LET currentState == IF MapGet(prev, tagId) = "undefined" THEN "none" ELSE MapGet(prev, tagId)
  IN  IF currentState = "none" THEN MapSet(prev, tagId, "include")
      ELSE IF currentState = "include" THEN MapSet(prev, tagId, "exclude")
      ELSE MapDelete(prev, tagId)

\* Array.prototype.join(","), on a text made of whole names and "," tokens.
JoinComma(names) ==
  IF Len(names) = 0 THEN << >>
  ELSE [i \in 1..(2 * Len(names) - 1) |-> IF i % 2 = 1 THEN names[(i + 1) \div 2] ELSE ","]

\* The URLSearchParams of performSearch: include always, exclude only for a
\* non-empty list (<< >> when the parameter is absent).
buildParams(includedTags, excludedTags) ==
  [include |-> JoinComma(includedTags),
   exclude |-> IF Len(excludedTags) > 0 THEN << JoinComma(excludedTags) >> ELSE << >>]

\* Ascending sequence of a finite set of integers.
RECURSIVE SortAscending(_)
SortAscending(S) ==
  IF S = {} THEN << >>
  ELSE LET least == CHOOSE x \in S : \A y \in S : x <= y
       IN  << least >> \o SortAscending(S \ {least})

(***************************************************************************)
(* The catalog's search endpoint (GET /games/search/multi-tag)             *)
(***************************************************************************)

\* Mutant of SplitComma: only the first name of the parameter is read.
SplitComma_firstOnly(text) == { text[1] }

\* The names of a comma-separated parameter.
SplitComma(text) == { text[i] : i \in { j \in 1..Len(text) : j % 2 = 1 } }

\* Mutant of MissingCount: the key is the number of included tags the item
\* has.
MissingCount_countsMatched(item, includeNames) ==
  Cardinality(includeNames \cap item.tags)

\* missingCount of an item for an include set.
MissingCount(item, includeNames) ==
  Cardinality(includeNames) - Cardinality(includeNames \cap item.tags)

\* Mutant of MatchingIn: an item that has every included tag survives an
\* excluded tag.
MatchingIn_perfectMatchSurvives(catalog, includeNames, excludeNames) ==
  { item \in catalog :
      /\ item.tags \cap excludeNames = {} \/ includeNames \subseteq item.tags
      /\ item.tags \cap includeNames # {} }

\* Filtering and the zero-match rule: the items of a catalog that survive
\* exclusion and match at least one included tag.
MatchingIn(catalog, includeNames, excludeNames) ==
  { item \in catalog : item.tags \cap excludeNames = {} /\ item.tags \cap includeNames # {} }

Matching(includeNames, excludeNames) == MatchingIn(Catalog, includeNames, excludeNames)

\* Mutant of searchByTagsIn: a bucket also holds the items that miss fewer
\* tags than its key.
searchByTagsIn_cumulativeBuckets(catalog, includeNames, excludeNames) ==
  LET items == MatchingIn(catalog, includeNames, excludeNames)
      keys  == { MissingCount(item, includeNames) : item \in items }
  IN  [results |-> [k \in keys |->
                      SortAscending({ item.id : item \in { it \in items :
                                        MissingCount(it, includeNames) <= k } })],
       total_required_tags |-> Cardinality(includeNames)]

\* The match bucketing engine on a catalog: buckets keyed by missing count,
\* each ordered by item id, and totalRequiredTags.
searchByTagsIn(catalog, includeNames, excludeNames) ==
  LET items == MatchingIn(catalog, includeNames, excludeNames)
      keys  == { MissingCount(item, includeNames) : item \in items }
  IN  [results |-> [k \in keys |->
                      SortAscending({ item.id : item \in { it \in items :
                                        MissingCount(it, includeNames) = k } })],
       total_required_tags |-> Cardinality(includeNames)]

\* The engine on the catalog of the search endpoint.
searchByTags(includeNames, excludeNames) == searchByTagsIn(Catalog, includeNames, excludeNames)

\* The JSON body of an ok response to a request with these parameters: the
\* engine's answer for the names the parameters carry (a field of the body
\* is << value >>, and << >> when the body does not have it).
OkBody(params) ==
  LET answer == searchByTags(SplitComma(params.include),
                             IF params.exclude = << >> THEN {} ELSE SplitComma(params.exclude[1]))
  IN  [results |-> << answer.results >>, total_required_tags |-> << answer.total_required_tags >>]

\* data.results || {}
resultsOrEmpty(data) == IF data.results = << >> THEN << >> ELSE data.results[1]

\* Mutant of totalOrLength: the number of buckets of the body is taken.
totalOrLength_countsBuckets(data, includedTags) ==
  Cardinality(DOMAIN resultsOrEmpty(data))

\* data.total_required_tags || includedTags.length
totalOrLength(data, includedTags) ==
  IF data.total_required_tags = << >> \/ data.total_required_tags = << 0 >>
    THEN Len(includedTags)
    ELSE data.total_required_tags[1]

(***************************************************************************)
(* What the component renders                                              *)
(***************************************************************************)

\* getTagStateIndicator
getTagStateIndicator(sel, tagId) ==
  IF MapGet(sel, tagId) = "include" THEN "included"
  ELSE IF MapGet(sel, tagId) = "exclude" THEN "excluded"
  ELSE ""

hasResults(results) == Cardinality(DOMAIN results) > 0

\* Mutant of sectionOrder: the comparator is (a, b) => b - a.
sectionOrder_descending(results) ==
  LET up == SortAscending(DOMAIN results)
  IN  [i \in 1..Len(up) |-> up[Len(up) + 1 - i]]

\* The missing counts of the result sections, in the order they are rendered.
sectionOrder(results) == SortAscending(DOMAIN results)

\* The rendered page as a function of the component state.
Render(tags, sel, results, ldg, srch, expanded, total) ==
  IF ldg
    THEN [screen |-> "Loading tags...", buttons |-> << >>, search |-> << >>,
          clear |-> FALSE, counts |-> << >>, sections |-> << >>, hint |-> ""]
    ELSE [screen |-> "Browse by Multiple Tags",
          buttons |-> [i \in 1..Len(tags) |->
                         << tags[i].name, getTagStateIndicator(sel, tags[i].id) >>],
          search |-> << CountInState(sel, "include") = 0 \/ srch,
                        IF srch THEN "Searching..." ELSE "Search Games" >>,
          clear |-> Len(sel) > 0,
          counts |-> IF Len(sel) > 0
                       THEN << CountInState(sel, "include"), CountInState(sel, "exclude") >>
                       ELSE << >>,
          sections |-> IF hasResults(results)
                         THEN [i \in 1..Len(sectionOrder(results)) |->
                                 LET missingCount == sectionOrder(results)[i]
                                 IN  [missing |-> missingCount,
                                      matchCount |-> total - missingCount,
                                      total |-> total,
                                      games |-> Len(results[missingCount]),
                                      cards |-> IF missingCount \in expanded
                                                  THEN results[missingCount] ELSE << >>,
                                      isExpanded |-> missingCount \in expanded]]
                         ELSE << >>,
          hint |-> IF ~hasResults(results) /\ Len(sel) = 0 THEN "Select tags above"
                   ELSE IF ~hasResults(results) /\ Len(sel) > 0 /\ ~srch THEN "Click Search Games"
                   ELSE ""]

(***************************************************************************)
(* Initial state: the component has mounted and fetchTags has sent its     *)
(* request.                                                                *)
(***************************************************************************)
\* The record kept in lastOp: the step, the tag id it was called with (else
\* 0) and what the claims about the step need to know of it:
\*   handleTagClick  << calls on this tag in a row, state before the first >>
\*   respondNotOk, respondThrew   FailureInfo
\*   respondOk       OkInfo
Op(op, arg, info) == [op |-> op, arg |-> arg, info |-> info]

Init ==
  /\ allTags = << >>
  /\ selectedTags = EmptyMap
  /\ searchResults = << >>
  /\ loading = TRUE
  /\ searching = FALSE
  /\ expandedSections = {0}
  /\ totalRequiredTags = 0
  /\ urlTag \in UrlTags
  /\ tagsFetch = "pending"
  /\ timer = "idle"
  /\ inflight = {}
  /\ issued = 0
  /\ lastOp = Op("mount", 0, << >>)
  /\ newestOk = [seq |-> 0, results |-> << >>, total |-> 0]
  /\ engine = [catalog |-> Catalog, include |-> {}, exclude |-> {}, answer |-> << >>]
  /\ tracksIssue = FALSE

(***************************************************************************)
(* fetchTags (the mount effect) and the auto-search timer                  *)
(***************************************************************************)

\* Mutant of fetchTagsOk: the auto-search is armed for any name in the URL,
\* found in the vocabulary or not.
fetchTagsOk_armsForAnyName ==
  /\ tagsFetch = "pending"
  /\ tagsFetch' = "done"
  /\ allTags' = TagData
  /\ IF urlTag # << >>
       THEN /\ selectedTags' = IF FindTagByName(TagData, urlTag[1]) # << >>
                                 THEN MapSet(EmptyMap, FindTagByName(TagData, urlTag[1])[1].id,
                                             "include")
                                 ELSE selectedTags
            /\ timer' = "armed"
       ELSE UNCHANGED << selectedTags, timer >>
  /\ loading' = FALSE
  /\ lastOp' = Op("fetchTagsOk", 0, << >>)
  /\ UNCHANGED << searchResults, searching, expandedSections, totalRequiredTags,
                  urlTag, inflight, issued, newestOk, engine,
                  tracksIssue >>

\* GET /tags answered ok: the vocabulary is stored and a tag named in the
\* URL that the vocabulary has is pre-selected, with the auto-search armed.
fetchTagsOk ==
  /\ tagsFetch = "pending"
  /\ tagsFetch' = "done"
  /\ allTags' = TagData
  /\ IF urlTag # << >> /\ FindTagByName(TagData, urlTag[1]) # << >>
       THEN /\ selectedTags' = MapSet(EmptyMap, FindTagByName(TagData, urlTag[1])[1].id, "include")
            /\ timer' = "armed"
       ELSE UNCHANGED << selectedTags, timer >>
  /\ loading' = FALSE
  /\ lastOp' = Op("fetchTagsOk", 0, << >>)
  /\ UNCHANGED << searchResults, searching, expandedSections, totalRequiredTags,
                  urlTag, inflight, issued, newestOk, engine,
                  tracksIssue >>

\* GET /tags answered not ok, or the fetch threw: only loading changes.
fetchTagsFailed ==
  /\ tagsFetch = "pending"
  /\ tagsFetch' = "done"
  /\ loading' = FALSE
  /\ lastOp' = Op("fetchTagsFailed", 0, << >>)
  /\ UNCHANGED << allTags, selectedTags, searchResults, searching, expandedSections,
                  totalRequiredTags, urlTag, timer, inflight, issued, newestOk, engine,
                  tracksIssue >>

\* performSearch up to its await of fetch: searching is set and the request
\* leaves with the two lists it was called with.
performSearch(includedTags, excludedTags) ==
  /\ issued < MaxRequests
  /\ searching' = TRUE
  /\ issued' = issued + 1
  /\ inflight' = inflight \cup
       { [seq |-> issued + 1,
          includedTags |-> includedTags,
          excludedTags |-> excludedTags,
          params |-> buildParams(includedTags, excludedTags),
          atIssue |-> IF tracksIssue
                        THEN << searchResults, totalRequiredTags, expandedSections >>
                        ELSE << >>] }

\* Mutant of autoSearch: the callback searches for what is selected when it
\* fires instead of the pre-selected name.
autoSearch_usesSelection ==
  /\ timer = "armed"
  /\ timer' = "fired"
  /\ performSearch(includedTagsOf(selectedTags, allTags), excludedTagsOf(selectedTags, allTags))
  /\ lastOp' = Op("autoSearch", 0, << >>)
  /\ UNCHANGED << allTags, selectedTags, searchResults, loading, expandedSections,
                  totalRequiredTags, urlTag, tagsFetch, newestOk, engine,
                  tracksIssue >>

\* The setTimeout callback of fetchTags.
autoSearch ==
  /\ timer = "armed"
  /\ timer' = "fired"
  /\ performSearch(<< urlTag[1] >>, << >>)
  /\ lastOp' = Op("autoSearch", 0, << >>)
  /\ UNCHANGED << allTags, selectedTags, searchResults, loading, expandedSections,
                  totalRequiredTags, urlTag, tagsFetch, newestOk, engine,
                  tracksIssue >>

(***************************************************************************)
(* The handlers                                                            *)
(***************************************************************************)
\* History of handleTagClick(tagId): how many calls on tagId have now run
\* in a row (1 to 3, then 1 again) and the state tagId had before the first.
Streak(tagId) ==
  IF lastOp.op = "handleTagClick" /\ lastOp.arg = tagId /\ lastOp.info[1] < 3
    THEN << lastOp.info[1] + 1, lastOp.info[2] >>
    ELSE << 1, StateOf(selectedTags, tagId) >>

\* Mutant of handleTagClick: the outstanding requests read the selection
\* when they are answered instead of holding their own two lists.
handleTagClick_liveSnapshot(tagId) ==
  /\ selectedTags' = nextSelectedTags(selectedTags, tagId)
  /\ lastOp' = Op("handleTagClick", tagId, Streak(tagId))
  /\ inflight' = { [r EXCEPT !.includedTags = includedTagsOf(selectedTags', allTags),
                             !.excludedTags = excludedTagsOf(selectedTags', allTags)]
                   : r \in inflight }
  /\ UNCHANGED << allTags, searchResults, loading, searching, expandedSections,
                  totalRequiredTags, urlTag, tagsFetch, timer, issued, newestOk, engine,
                  tracksIssue >>

\* Mutant of handleTagClick: a click that leaves a tag included searches
\* at once.
handleTagClick_searchesAtOnce(tagId) ==
  /\ selectedTags' = nextSelectedTags(selectedTags, tagId)
  /\ lastOp' = Op("handleTagClick", tagId, Streak(tagId))
  /\ IF issued < MaxRequests /\ Len(includedTagsOf(selectedTags', allTags)) > 0
       THEN performSearch(includedTagsOf(selectedTags', allTags),
                          excludedTagsOf(selectedTags', allTags))
       ELSE UNCHANGED << searching, inflight, issued >>
  /\ UNCHANGED << allTags, searchResults, loading, expandedSections,
                  totalRequiredTags, urlTag, tagsFetch, timer, newestOk, engine,
                  tracksIssue >>

handleTagClick(tagId) ==
  /\ selectedTags' = nextSelectedTags(selectedTags, tagId)
  /\ lastOp' = Op("handleTagClick", tagId, Streak(tagId))
  /\ UNCHANGED << allTags, searchResults, loading, searching, expandedSections,
                  totalRequiredTags, urlTag, tagsFetch, timer, inflight, issued, newestOk, engine,
                  tracksIssue >>

\* Mutant of clearSelection: the stored results are kept.
clearSelection_keepsResults ==
  /\ selectedTags' = EmptyMap
  /\ expandedSections' = {0}
  /\ lastOp' = Op("clearSelection", 0, << >>)
  /\ UNCHANGED << allTags, searchResults, loading, searching, totalRequiredTags, urlTag,
                  tagsFetch, timer, inflight, issued, newestOk, engine,
                  tracksIssue >>

clearSelection ==
  /\ selectedTags' = EmptyMap
  /\ searchResults' = << >>
  /\ expandedSections' = {0}
  /\ lastOp' = Op("clearSelection", 0, << >>)
  /\ UNCHANGED << allTags, loading, searching, totalRequiredTags, urlTag, tagsFetch,
                  timer, inflight, issued, newestOk, engine,
                  tracksIssue >>

\* Mutant of searchGames: the check of includedTags.length is missing.
searchGames_noValidation ==
  /\ performSearch(includedTagsOf(selectedTags, allTags), excludedTagsOf(selectedTags, allTags))
  /\ lastOp' = Op("searchGames", 0, << >>)
  /\ UNCHANGED << allTags, selectedTags, searchResults, loading, expandedSections,
                  totalRequiredTags, urlTag, tagsFetch, timer, newestOk, engine,
                  tracksIssue >>

\* Mutant of searchGames: deriving the two lists drains the selection.
searchGames_drainsSelection ==
  LET includedTags == includedTagsOf(selectedTags, allTags)
      excludedTags == excludedTagsOf(selectedTags, allTags)
  IN  /\ IF Len(includedTags) = 0
           THEN /\ lastOp' = Op("alert", 0, << >>)
                /\ UNCHANGED << searching, inflight, issued >>
           ELSE /\ performSearch(includedTags, excludedTags)
                /\ lastOp' = Op("searchGames", 0, << >>)
      /\ selectedTags' = EmptyMap
      /\ UNCHANGED << allTags, searchResults, loading, expandedSections,
                      totalRequiredTags, urlTag, tagsFetch, timer, newestOk, engine,
                  tracksIssue >>

\* searchGames: derive the two name lists, alert and return when nothing is
\* included, else performSearch.
searchGames ==
  LET includedTags == includedTagsOf(selectedTags, allTags)
      excludedTags == excludedTagsOf(selectedTags, allTags)
  IN  /\ IF Len(includedTags) = 0
           THEN /\ lastOp' = Op("alert", 0, << >>)
                /\ UNCHANGED << searching, inflight, issued >>
           ELSE /\ performSearch(includedTags, excludedTags)
                /\ lastOp' = Op("searchGames", 0, << >>)
      /\ UNCHANGED << allTags, selectedTags, searchResults, loading, expandedSections,
                      totalRequiredTags, urlTag, tagsFetch, timer, newestOk, engine,
                  tracksIssue >>

toggleSection(missingCount) ==
  /\ expandedSections' = IF missingCount \in expandedSections
                           THEN expandedSections \ {missingCount}
                           ELSE expandedSections \cup {missingCount}
  /\ lastOp' = Op("toggleSection", 0, << >>)
  /\ UNCHANGED << allTags, selectedTags, searchResults, loading, searching,
                  totalRequiredTags, urlTag, tagsFetch, timer, inflight, issued, newestOk, engine,
                  tracksIssue >>

(***************************************************************************)
(* The rest of performSearch: the response of a request                    *)
(***************************************************************************)

\* The page as it would be had the request been answered ok with no bucket.
RenderAfterEmptyOk(r) ==
  Render(allTags, selectedTags, << >>, loading, FALSE, {0}, Len(r.includedTags))

\* History of a failed request r: whether the stored result, total and
\* expanded set are what they were when r was issued (FALSE when requests
\* do not record them, outside SpecAtIssue), and whether the page
\* differs from the page an ok response without buckets would have left.
FailureInfo(r) ==
  << r.atIssue = << searchResults', totalRequiredTags', expandedSections' >>,
     Render(allTags', selectedTags', searchResults', loading', searching',
            expandedSections', totalRequiredTags') # RenderAfterEmptyOk(r) >>

\* History of a request r answered ok: whether no item of the catalog
\* matched its query, whether results were stored when the answer came, and
\* the number of names r was issued to include.
OkInfo(r) ==
  << Matching(SplitComma(r.params.include),
              IF r.params.exclude = << >> THEN {} ELSE SplitComma(r.params.exclude[1])) = {},
     hasResults(searchResults),
     Len(r.includedTags) >>

\* Mutant of respondOk: an answer without buckets leaves the stored results.
respondOk_keepsResultsWhenEmpty(r, data) ==
  /\ r \in inflight
  /\ inflight' = inflight \ {r}
  /\ searchResults' = IF resultsOrEmpty(data) = << >> THEN searchResults
                       ELSE resultsOrEmpty(data)
  /\ totalRequiredTags' = totalOrLength(data, r.includedTags)
  /\ expandedSections' = {0}
  /\ searching' = FALSE
  /\ lastOp' = Op("respondOk", 0, OkInfo(r))
  /\ newestOk' = IF r.seq > newestOk.seq
                   THEN [seq |-> r.seq, results |-> searchResults', total |-> totalRequiredTags']
                   ELSE newestOk
  /\ UNCHANGED << allTags, selectedTags, loading, urlTag, tagsFetch, timer, issued,
                  engine, tracksIssue >>

\* Mutant of respondOk: the buckets of the body are merged into the stored
\* ones, as in setSearchResults((prev) => ({ ...prev, ...data.results })).
respondOk_mergesResults(r, data) ==
  /\ r \in inflight
  /\ inflight' = inflight \ {r}
  /\ searchResults' = [k \in DOMAIN searchResults \cup DOMAIN resultsOrEmpty(data) |->
                          IF k \in DOMAIN resultsOrEmpty(data) THEN resultsOrEmpty(data)[k]
                          ELSE searchResults[k]]
  /\ totalRequiredTags' = totalOrLength(data, r.includedTags)
  /\ expandedSections' = {0}
  /\ searching' = FALSE
  /\ lastOp' = Op("respondOk", 0, OkInfo(r))
  /\ newestOk' = IF r.seq > newestOk.seq
                   THEN [seq |-> r.seq, results |-> searchResults', total |-> totalRequiredTags']
                   ELSE newestOk
  /\ UNCHANGED << allTags, selectedTags, loading, urlTag, tagsFetch, timer, issued,
                  engine, tracksIssue >>

\* Mutant of respondOk: storing the results also resets the selection.
respondOk_resetsSelection(r, data) ==
  /\ r \in inflight
  /\ inflight' = inflight \ {r}
  /\ searchResults' = resultsOrEmpty(data)
  /\ totalRequiredTags' = totalOrLength(data, r.includedTags)
  /\ expandedSections' = {0}
  /\ searching' = FALSE
  /\ selectedTags' = EmptyMap
  /\ lastOp' = Op("respondOk", 0, OkInfo(r))
  /\ newestOk' = IF r.seq > newestOk.seq
                   THEN [seq |-> r.seq, results |-> searchResults', total |-> totalRequiredTags']
                   ELSE newestOk
  /\ UNCHANGED << allTags, loading, urlTag, tagsFetch, timer, issued, engine,
                  tracksIssue >>

\* response.ok: the body is stored, section 0 expanded, searching reset.
respondOk(r, data) ==
  /\ r \in inflight
  /\ inflight' = inflight \ {r}
  /\ searchResults' = resultsOrEmpty(data)
  /\ totalRequiredTags' = totalOrLength(data, r.includedTags)
  /\ expandedSections' = {0}
  /\ searching' = FALSE
  /\ lastOp' = Op("respondOk", 0, OkInfo(r))
  /\ newestOk' = IF r.seq > newestOk.seq
                   THEN [seq |-> r.seq, results |-> searchResults', total |-> totalRequiredTags']
                   ELSE newestOk
  /\ UNCHANGED << allTags, selectedTags, loading, urlTag, tagsFetch, timer, issued,
                  engine, tracksIssue >>

\* Mutant of respondNotOk: a response that is not ok empties the results.
respondNotOk_clearsResults(r) ==
  /\ r \in inflight
  /\ inflight' = inflight \ {r}
  /\ searching' = FALSE
  /\ searchResults' = << >>
  /\ UNCHANGED << allTags, selectedTags, loading, expandedSections,
                  totalRequiredTags, urlTag, tagsFetch, timer, issued, newestOk, engine,
                  tracksIssue >>
  /\ lastOp' = Op("respondNotOk", 0, FailureInfo(r))

\* !response.ok: only the finally block runs.
respondNotOk(r) ==
  /\ r \in inflight
  /\ inflight' = inflight \ {r}
  /\ searching' = FALSE
  /\ UNCHANGED << allTags, selectedTags, searchResults, loading, expandedSections,
                  totalRequiredTags, urlTag, tagsFetch, timer, issued, newestOk, engine,
                  tracksIssue >>
  /\ lastOp' = Op("respondNotOk", 0, FailureInfo(r))

\* Mutant of respondThrew: the catch block runs without the finally block.
respondThrew_noFinally(r) ==
  /\ r \in inflight
  /\ inflight' = inflight \ {r}
  /\ UNCHANGED << allTags, selectedTags, searchResults, loading, searching, expandedSections,
                  totalRequiredTags, urlTag, tagsFetch, timer, issued, newestOk, engine,
                  tracksIssue >>
  /\ lastOp' = Op("respondThrew", 0, FailureInfo(r))

\* fetch (or response.json) threw: console.error, then the finally block.
respondThrew(r) ==
  /\ r \in inflight
  /\ inflight' = inflight \ {r}
  /\ searching' = FALSE
  /\ UNCHANGED << allTags, selectedTags, searchResults, loading, expandedSections,
                  totalRequiredTags, urlTag, tagsFetch, timer, issued, newestOk, engine,
                  tracksIssue >>
  /\ lastOp' = Op("respondThrew", 0, FailureInfo(r))

Respond ==
  \E r \in inflight :
    \/ respondOk(r, OkBody(r.params))
    \/ respondNotOk(r)
    \/ respondThrew(r)

(***************************************************************************)
(* Spec: the page as the user drives it. A handler runs when the element   *)
(* that carries it is rendered and enabled.                                *)
(***************************************************************************)
Next ==
  \/ fetchTagsOk
  \/ fetchTagsFailed
  \/ autoSearch
  \/ Respond
  \/ \E i \in 1..Len(allTags) : ~loading /\ handleTagClick(allTags[i].id)
  \/ ~loading /\ ~(CountInState(selectedTags, "include") = 0 \/ searching) /\ searchGames
  \/ ~loading /\ Len(selectedTags) > 0 /\ clearSelection
  \/ \E missingCount \in DOMAIN searchResults :
       ~loading /\ hasResults(searchResults) /\ toggleSection(missingCount)

Spec == Init /\ [][Next]_vars

(***************************************************************************)
(* SpecAtIssue: Spec with every request recording the stored results,      *)
(* totalRequiredTags and expanded sections it was issued at, so that they  *)
(* can be compared with what is stored when the request fails. The page is *)
(* opened with a tag of the vocabulary in the URL: after clearSelection it *)
(* is where a page opened without one starts, with the auto-search on top. *)
(***************************************************************************)
InitAtIssue ==
  /\ allTags = << >>
  /\ selectedTags = EmptyMap
  /\ searchResults = << >>
  /\ loading = TRUE
  /\ searching = FALSE
  /\ expandedSections = {0}
  /\ totalRequiredTags = 0
  /\ urlTag = << TagData[1].name >>
  /\ tagsFetch = "pending"
  /\ timer = "idle"
  /\ inflight = {}
  /\ issued = 0
  /\ lastOp = Op("mount", 0, << >>)
  /\ newestOk = [seq |-> 0, results |-> << >>, total |-> 0]
  /\ engine = [catalog |-> Catalog, include |-> {}, exclude |-> {}, answer |-> << >>]
  /\ tracksIssue = TRUE

SpecAtIssue == InitAtIssue /\ [][Next]_vars

(***************************************************************************)
(* SpecLive: Spec with every catalog request resolving at some time, ok,   *)
(* not ok or by throwing. The user's steps and the page load stay free.    *)
(***************************************************************************)
\* The fetch of the request numbered seq settles: the request leaves
\* inflight, which in Next is a step of respondOk, respondNotOk or
\* respondThrew on that request.
Resolve(seq) ==
  \E r \in inflight : r.seq = seq /\ inflight' = inflight \ {r}

SpecLive == Init /\ [][Next]_vars /\ \A seq \in 1..MaxRequests : WF_inflight(Resolve(seq))

(***************************************************************************)
(* SpecHandlers: the handlers as the operations toggle(tagId), clear() and *)
(* search() that any caller may invoke once the page is loaded, whatever   *)
(* is rendered or enabled and with any id.                                 *)
(* toggleSection exists once per rendered section, with that section's key.*)
(***************************************************************************)
NextHandlers ==
  \/ fetchTagsOk
  \/ fetchTagsFailed
  \/ autoSearch
  \/ Respond
  \/ \E tagId \in CallerIds : ~loading /\ handleTagClick(tagId)
  \/ ~loading /\ searchGames
  \/ ~loading /\ clearSelection
  \/ \E missingCount \in DOMAIN searchResults : ~loading /\ toggleSection(missingCount)

SpecHandlers == Init /\ [][NextHandlers]_vars

(***************************************************************************)
(* SpecEngine: the match bucketing engine run once on a catalog of         *)
(* MaxItems items with any tag sets, for any non-empty include set and any *)
(* exclude set. The page stays as it is mounted.                           *)
(***************************************************************************)
Catalogs ==
  { { [id |-> i, tags |-> f[i]] : i \in 1..MaxItems } : f \in [1..MaxItems -> SUBSET EngineTags] }

InitEngine ==
  /\ allTags = << >>
  /\ selectedTags = EmptyMap
  /\ searchResults = << >>
  /\ loading = TRUE
  /\ searching = FALSE
  /\ expandedSections = {0}
  /\ totalRequiredTags = 0
  /\ urlTag = << >>
  /\ tagsFetch = "pending"
  /\ timer = "idle"
  /\ inflight = {}
  /\ issued = 0
  /\ lastOp = Op("mount", 0, << >>)
  /\ newestOk = [seq |-> 0, results |-> << >>, total |-> 0]
  /\ \E catalog \in Catalogs :
       engine = [catalog |-> catalog, include |-> {}, exclude |-> {}, answer |-> << >>]
  /\ tracksIssue = FALSE

\* One call of the engine: the query and its answer are recorded.
engineSearch(includeNames, excludeNames) ==
  /\ engine.answer = << >>
  /\ engine' = [engine EXCEPT !.include = includeNames,
                              !.exclude = excludeNames,
                              !.answer = << searchByTagsIn(engine.catalog, includeNames,
                                                           excludeNames) >>]
  /\ UNCHANGED << prog, hist >>

NextEngine ==
  \E includeNames \in (SUBSET EngineTags) \ {{}}, excludeNames \in SUBSET EngineTags :
    engineSearch(includeNames, excludeNames)

SpecEngine == InitEngine /\ [][NextEngine]_vars

(***************************************************************************)
(* Properties                                                              *)
(***************************************************************************)

\* The cycle of section 4.1: none -> include -> exclude -> none.
CycleNext(state) ==
  IF state = "none" THEN "include"
  ELSE IF state = "include" THEN "exclude"
  ELSE "none"

Failed == lastOp.op \in {"respondNotOk", "respondThrew"}

\* The two name lists searchGames would derive in this state.
includeNames == includedTagsOf(selectedTags, allTags)
excludeNames == excludedTagsOf(selectedTags, allTags)

Range(seq) == { seq[i] : i \in 1..Len(seq) }

\* C1: one handleTagClick on a tag moves that tag's state one step along
\* none -> include -> exclude -> none, and in no other way.
C1_ToggleFollowsCycle ==
  [][lastOp'.op = "handleTagClick"
       => StateOf(selectedTags', lastOp'.arg) = CycleNext(StateOf(selectedTags, lastOp'.arg))]_vars

\* A click has just moved a tag from include to exclude.
C1_Witness ==
  /\ lastOp.op = "handleTagClick"
  /\ StateOf(selectedTags, lastOp.arg) = "exclude"

\* C2: after three handleTagClick calls in a row on one tag the tag is back
\* in the state it had before the first of them (none when it started in none).
C2_ThreeTogglesClose ==
  (lastOp.op = "handleTagClick" /\ lastOp.info[1] = 3)
    => StateOf(selectedTags, lastOp.arg) = lastOp.info[2]

\* Three clicks in a row on a tag that started in none have just ended.
C2_Witness ==
  /\ lastOp.op = "handleTagClick"
  /\ lastOp.info = << 3, "none" >>
  /\ StateOf(selectedTags, lastOp.arg) = "none"

\* C3: in every reachable state the include and exclude name lists derived
\* from the selection have no name in common.
C3_IncludeExcludeDisjoint == Range(includeNames) \cap Range(excludeNames) = {}

\* Both lists are non-empty while a search is outstanding.
C3_Witness ==
  /\ Len(includeNames) > 0
  /\ Len(excludeNames) > 0
  /\ inflight # {}

\* C4: searchGames alerts (NoIncludedTags) exactly when the derived include
\* list is empty; it then issues no request and leaves searching, the results
\* and totalRequiredTags alone; with a non-empty list it issues exactly one
\* request.
C4_SearchValidation ==
  [][/\ lastOp'.op = "alert"
          => /\ Len(includeNames) = 0
             /\ UNCHANGED << inflight, issued, searching, searchResults, totalRequiredTags >>
     /\ lastOp'.op = "searchGames"
          => /\ Len(includeNames) > 0
             /\ inflight \subseteq inflight'
             /\ Cardinality(inflight' \ inflight) = 1
             /\ issued' = issued + 1]_vars

\* searchGames has just refused an empty include list although an entry of
\* the selection is in state include.
C4_Witness ==
  /\ lastOp.op = "alert"
  /\ CountInState(selectedTags, "include") > 0
  /\ inflight = {}

\* C5: handleTagClick with an id that allTags does not hold leaves the
\* selection as it is.
C5_UnknownTagIsNoOp ==
  [][(lastOp'.op = "handleTagClick" /\ FindTagById(allTags, lastOp'.arg) = << >>)
       => selectedTags' = selectedTags]_vars

\* C6: after clearSelection every tag is in state none and the stored result
\* has no bucket.
C6_ClearResetsAll ==
  lastOp.op = "clearSelection"
    => /\ \A tagId \in CallerIds \cup { TagData[i].id : i \in 1..Len(TagData) } :
            StateOf(selectedTags, tagId) = "none"
       /\ ~hasResults(searchResults)

\* clearSelection has just run on a page that had stored a search result and
\* still has a request outstanding.
C6_Witness ==
  /\ lastOp.op = "clearSelection"
  /\ totalRequiredTags > 0
  /\ inflight # {}

\* C7: once an ok response has been applied, the stored result and total are
\* those stored by the newest request answered ok so far: the response of an
\* older request never replaces them.
C7_NewestResponseWins ==
  lastOp.op = "respondOk"
    => /\ searchResults = newestOk.results
       /\ totalRequiredTags = newestOk.total

\* C8: the two lists and the parameters of an outstanding request stay what
\* they were when it was issued, whatever step is taken.
C8_SnapshotIsFixed ==
  [][\A r \in inflight : \A q \in inflight' :
       q.seq = r.seq => /\ q.includedTags = r.includedTags
                        /\ q.excludedTags = r.excludedTags
                        /\ q.params = r.params]_vars

\* A click was accepted while a request was outstanding, and the selection
\* now derives other lists than the request holds.
C8_Witness ==
  /\ lastOp.op = "handleTagClick"
  /\ \E r \in inflight : << r.includedTags, r.excludedTags >> # << includeNames, excludeNames >>

\* C9 as stated: after a failed lookup the stored result, totalRequiredTags
\* and the expanded set are what they were when that search was issued.
C9_AsBeforeIssue == Failed => lastOp.info[1]

\* C9 amended: issuing a search and handling its failure change none of the
\* three; only clearSelection, toggleSection and an ok response do.
C9_FailedSearchChangesNothing ==
  [][/\ lastOp'.op \in {"searchGames", "autoSearch", "alert", "respondNotOk", "respondThrew"}
          => UNCHANGED << searchResults, totalRequiredTags, expandedSections >>
     /\ << searchResults, totalRequiredTags, expandedSections >>'
          # << searchResults, totalRequiredTags, expandedSections >>
          => lastOp'.op \in {"clearSelection", "toggleSection", "respondOk"}]_vars

\* A lookup has just failed on a page that shows the buckets of an earlier
\* search, and they are what they were when the failed search was issued.
C9_Witness ==
  /\ Failed
  /\ hasResults(searchResults)
  /\ lastOp.info[1]

\* C10: after a failed lookup the page differs from the page an ok response
\* without buckets would have left.
C10_FailureIsSurfaced == Failed => lastOp.info[2]

\* C11: pre-selection of a tag name the vocabulary has leaves exactly that
\* tag in include and every other tag in none, and the auto-search it arms
\* is issued with that name as its only included name and nothing excluded.
C11_PreSelection ==
  /\ (lastOp.op = "fetchTagsOk" /\ urlTag # << >> /\ FindTagByName(allTags, urlTag[1]) # << >>)
       => /\ Len(selectedTags) = 1
          /\ \A i \in 1..Len(allTags) :
               StateOf(selectedTags, allTags[i].id)
                 = IF allTags[i].name = urlTag[1] THEN "include" ELSE "none"
          /\ timer = "armed"
  /\ lastOp.op = "autoSearch"
       => \E r \in inflight :
            /\ r.seq = issued
            /\ r.includedTags = << urlTag[1] >>
            /\ r.excludedTags = << >>
            /\ r.params = [include |-> << urlTag[1] >>, exclude |-> << >>]

\* The auto-search has just been issued after the user changed the selection
\* the pre-selection had made.
C11_Witness ==
  /\ lastOp.op = "autoSearch"
  /\ includeNames # << urlTag[1] >>

\* C12 as stated: every change of the selection is made by handleTagClick or
\* clearSelection.
C12_OnlyToggleAndClearWrite ==
  [][selectedTags' # selectedTags
       => lastOp'.op \in {"handleTagClick", "clearSelection"}]_vars

\* C12 amended: every change of the selection is made by handleTagClick, by
\* clearSelection or by the pre-selection of fetchTags; issuing a search,
\* handling a response or a failure, the alert and toggleSection leave it
\* as it is.
C12_SelectionWriters ==
  [][/\ selectedTags' # selectedTags
          => lastOp'.op \in {"handleTagClick", "clearSelection", "fetchTagsOk"}
     /\ lastOp'.op \in {"searchGames", "autoSearch", "alert", "respondOk", "respondNotOk",
                        "respondThrew", "toggleSection", "fetchTagsFailed"}
          => UNCHANGED selectedTags]_vars

\* A result section has just been collapsed or expanded while two tags are
\* selected.
C12_Witness ==
  /\ lastOp.op = "toggleSection"
  /\ Len(selectedTags) = 2

\* C13: handleTagClick only updates the selection: it issues no request and
\* leaves the stored results, totalRequiredTags, the searching flag and the
\* expanded sections as they are.
C13_ToggleOnlyUpdatesSelection ==
  [][lastOp'.op = "handleTagClick"
       => /\ selectedTags' = nextSelectedTags(selectedTags, lastOp'.arg)
          /\ selectedTags' # selectedTags
          /\ UNCHANGED << searchResults, totalRequiredTags, searching, expandedSections,
                          inflight, issued >>]_vars

\* A tag has just been clicked while results are shown with a section
\* toggled and a search is outstanding.
C13_Witness ==
  /\ lastOp.op = "handleTagClick"
  /\ hasResults(searchResults)
  /\ expandedSections # {0}
  /\ searching
  /\ inflight # {}

\* C14: deriving the two name lists, the first step of searchGames, can run
\* in every state of the loaded page (MaxRequests caps only the request that
\* may follow it), changes neither the selection nor the stored results, and
\* a second derivation right after it yields the same two lists.
C14_DeriveIsPureRead ==
  /\ []((~loading /\ (issued < MaxRequests \/ Len(includeNames) = 0)) => ENABLED searchGames)
  /\ [][lastOp'.op \in {"searchGames", "alert"}
          => /\ UNCHANGED << selectedTags, searchResults >>
             /\ includeNames' = includeNames
             /\ excludeNames' = excludeNames]_vars

\* The lists were derived with no tag selected while a search was
\* outstanding.
C14_Witness ==
  /\ lastOp.op = "alert"
  /\ Len(selectedTags) = 0
  /\ searching
  /\ inflight # {}

\* C15: the derived includeNames holds exactly the names of the tags in
\* state include and the derived excludeNames exactly the names of the tags
\* in state exclude, each name once.
C15_DerivedListsAreExact ==
  /\ Range(includeNames)
       = { allTags[i].name : i \in { j \in 1..Len(allTags) :
                                       StateOf(selectedTags, allTags[j].id) = "include" } }
  /\ Range(excludeNames)
       = { allTags[i].name : i \in { j \in 1..Len(allTags) :
                                       StateOf(selectedTags, allTags[j].id) = "exclude" } }
  /\ Cardinality(Range(includeNames)) = Len(includeNames)
  /\ Cardinality(Range(excludeNames)) = Len(excludeNames)

\* Both tags are included, the second of the vocabulary selected first.
C15_Witness ==
  /\ Len(includeNames) = 2
  /\ includeNames[1] = "Horror"

\* The buckets of the engine's answer, the tags of a catalog item and the
\* places (bucket key, position) at which an item id occurs in the answer.
Buckets == engine.answer[1].results
TagsOfItem(id) == (CHOOSE item \in engine.catalog : item.id = id).tags
PlacesOf(id) ==
  { p \in UNION { { << k, i >> : i \in 1..Len(Buckets[k]) } : k \in DOMAIN Buckets } :
      Buckets[p[1]][p[2]] = id }

RECURSIVE SumOfLengths(_, _)
SumOfLengths(f, keys) ==
  IF keys = {} THEN 0
  ELSE LET k == CHOOSE x \in keys : TRUE
       IN  Len(f[k]) + SumOfLengths(f, keys \ {k})

\* C16: no item in any bucket of the answer has a tag of excludeNames.
C16_ExclusionIsAbsolute ==
  engine.answer # << >>
    => \A k \in DOMAIN Buckets : \A i \in 1..Len(Buckets[k]) :
         TagsOfItem(Buckets[k][i]) \cap engine.exclude = {}

\* The second scenario of the specification: the tagged items are
\* A{Action, Indie}, B{Action, Horror} and C{Horror}, include Action, exclude
\* Horror, answer {0: [A]}.
C16_Witness ==
  /\ { item \in engine.catalog : item.tags # {} }
       = { [id |-> 1, tags |-> {"Action", "Indie"}],
           [id |-> 2, tags |-> {"Action", "Horror"}],
           [id |-> 3, tags |-> {"Horror"}] }
  /\ engine.include = {"Action"}
  /\ engine.exclude = {"Horror"}
  /\ engine.answer # << >>
  /\ DOMAIN Buckets = {0}
  /\ Buckets[0] = << 1 >>

\* C17: the key of the bucket of an item is |includeNames| minus the number
\* of included tags the item has, it is at least 0 and less than
\* |includeNames|, and an item with no included tag is in no bucket.
C17_MissingCountIsTheKey ==
  engine.answer # << >>
    => /\ \A k \in DOMAIN Buckets : \A i \in 1..Len(Buckets[k]) :
            /\ k = Cardinality(engine.include)
                     - Cardinality(engine.include \cap TagsOfItem(Buckets[k][i]))
            /\ 0 <= k
            /\ k < Cardinality(engine.include)
       /\ \A item \in engine.catalog :
            item.tags \cap engine.include = {} => PlacesOf(item.id) = {}

\* The first scenario of the specification: the same catalog, include Action
\* and Horror, nothing excluded, answer {0: [B], 1: [A, C]} and total 2.
C17_Witness ==
  /\ { item \in engine.catalog : item.tags # {} }
       = { [id |-> 1, tags |-> {"Action", "Indie"}],
           [id |-> 2, tags |-> {"Action", "Horror"}],
           [id |-> 3, tags |-> {"Horror"}] }
  /\ engine.include = {"Action", "Horror"}
  /\ engine.exclude = {}
  /\ engine.answer # << >>
  /\ DOMAIN Buckets = {0, 1}
  /\ Buckets[0] = << 2 >>
  /\ Buckets[1] = << 1, 3 >>
  /\ engine.answer[1].total_required_tags = 2

\* C18: every catalog item with an included tag and no excluded tag is at
\* exactly one place of the answer, and the lengths of the buckets add up
\* to the number of those items.
C18_BucketsPartitionMatches ==
  engine.answer # << >>
    => LET matches == { item \in engine.catalog :
                          /\ item.tags \cap engine.include # {}
                          /\ item.tags \cap engine.exclude = {} }
       IN  /\ \A item \in matches : Cardinality(PlacesOf(item.id)) = 1
           /\ SumOfLengths(Buckets, DOMAIN Buckets) = Cardinality(matches)

\* An answer of two buckets holding two items, a third item left out for a
\* tag that is excluded and not included.
C18_Witness ==
  /\ engine.answer # << >>
  /\ engine.include \cap engine.exclude = {}
  /\ Cardinality(DOMAIN Buckets) = 2
  /\ SumOfLengths(Buckets, DOMAIN Buckets) = 2
  /\ \E item \in engine.catalog :
       item.tags \cap engine.exclude # {} /\ item.tags \cap engine.include # {}

\* C19: an ok response to a search that no catalog item matches is handled
\* as any ok response: the stored results become empty, whatever was stored
\* before, the page shows no section and one of its two hints, and the
\* search is over.
C19_EmptyResultIsNormal ==
  (lastOp.op = "respondOk" /\ lastOp.info[1])
    => /\ searchResults = << >>
       /\ ~hasResults(searchResults)
       /\ expandedSections = {0}
       /\ ~searching
       /\ LET page == Render(allTags, selectedTags, searchResults, loading, searching,
                             expandedSections, totalRequiredTags)
          IN  /\ page.sections = << >>
              /\ page.hint \in {"Select tags above", "Click Search Games"}
              /\ page.search[2] = "Search Games"

\* A search without a match was answered ok while earlier results were
\* stored.
C19_Witness ==
  /\ lastOp.op = "respondOk"
  /\ lastOp.info[1]
  /\ lastOp.info[2]

\* C20: the sections of the rendered results are in strictly ascending
\* order of missingCount, one for every bucket of the stored results, so
\* that bucket 0 comes first when there is one.
C20_SectionsAscend ==
  LET sections == Render(allTags, selectedTags, searchResults, loading, searching,
                         expandedSections, totalRequiredTags).sections
  IN  /\ \A i \in 1..(Len(sections) - 1) : sections[i].missing < sections[i + 1].missing
      /\ ~loading => { sections[i].missing : i \in 1..Len(sections) } = DOMAIN searchResults
      /\ (~loading /\ 0 \in DOMAIN searchResults) => sections[1].missing = 0

\* Results of two buckets are rendered, the second one expanded.
C20_Witness ==
  /\ ~loading
  /\ DOMAIN searchResults = {0, 1}
  /\ expandedSections = {0, 1}

\* C21: after an ok response is applied totalRequiredTags is the number of
\* names its request included, and every rendered section shows a match
\* count, totalRequiredTags minus its missingCount, of at least 1.
C21_TotalIsIncludeCount ==
  /\ lastOp.op = "respondOk" => totalRequiredTags = lastOp.info[3]
  /\ LET sections == Render(allTags, selectedTags, searchResults, loading, searching,
                            expandedSections, totalRequiredTags).sections
     IN  \A i \in 1..Len(sections) :
           /\ sections[i].matchCount = totalRequiredTags - sections[i].missing
           /\ sections[i].matchCount >= 1

\* A search for two names has been answered with a bucket of items that
\* miss one of them.
C21_Witness ==
  /\ lastOp.op = "respondOk"
  /\ lastOp.info[3] = 2
  /\ 1 \in DOMAIN searchResults

\* C22: handleTagClick(t) leaves the state of every tag other than t as it
\* is.
C22_TogglesAreIndependent ==
  [][lastOp'.op = "handleTagClick"
       => \A u \in (MapKeys(selectedTags) \cup MapKeys(selectedTags')
                      \cup { TagData[i].id : i \in 1..Len(TagData) }) \ {lastOp'.arg} :
            StateOf(selectedTags', u) = StateOf(selectedTags, u)]_vars

\* The third click in a row on tag 2 has deselected it while tag 1 is
\* excluded.
C22_Witness ==
  /\ lastOp.op = "handleTagClick"
  /\ lastOp.arg = 2
  /\ lastOp.info[1] = 3
  /\ StateOf(selectedTags, 1) = "exclude"
  /\ StateOf(selectedTags, 2) = "none"

C24_RequestCarriesSelection ==
  lastOp.op \in {"searchGames", "autoSearch"}
    => \E r \in inflight :
         /\ r.seq = issued
         /\ r.includedTags = includeNames
         /\ r.excludedTags = excludeNames

\* C25: the stored results stay empty after clearSelection until a search
\* issued after it succeeds. An ok response that is the next step after
\* clearSelection answers a request that was outstanding when it ran, so
\* it leaves the results empty.
C25_ClearedStaysEmpty ==
  [][(lastOp.op = "clearSelection" /\ lastOp'.op = "respondOk")
       => searchResults' = << >>]_vars

\* C26: searching is true exactly when a search request is outstanding, so
\* searchGames, whose button is disabled while searching, never issues a
\* request while another one is in flight.
C26_SearchingIffOutstanding ==
  /\ searching <=> inflight # {}
  /\ lastOp.op = "searchGames" => Cardinality(inflight) = 1

\* C27: when every request resolves at some time, searching does not stay
\* true forever, and each of the three ways a request resolves leaves
\* searching false.
C27_SearchingEnds ==
  /\ searching ~> ~searching
  /\ [](lastOp.op \in {"respondOk", "respondNotOk", "respondThrew"} => ~searching)

\* The last of two requests has resolved by throwing and the button is
\* enabled again.
C27_Witness ==
  /\ lastOp.op = "respondThrew"
  /\ issued >= 2
  /\ inflight = {}
  /\ ~searching
  /\ ~Render(allTags, selectedTags, searchResults, loading, searching,
             expandedSections, totalRequiredTags).search[1]

\* C28: an ok response replaces the stored results as a whole: after it the
\* stored buckets are exactly the buckets of the body of the answered
\* request, and the expanded sections are {0}.
C28_OkResponseReplacesAll ==
  [][lastOp'.op = "respondOk"
       => /\ \E r \in inflight \ inflight' :
               /\ inflight' = inflight \ {r}
               /\ searchResults' = OkBody(r.params).results[1]
          /\ expandedSections' = {0}]_vars

\* An ok response has replaced stored results whose bucket 0 held other
\* items: the result of the newest request, overwritten by an older one.
C28_Witness ==
  /\ lastOp.op = "respondOk"
  /\ lastOp.info[2]
  /\ 0 \in DOMAIN newestOk.results
  /\ 0 \in DOMAIN searchResults
  /\ searchResults[0] # newestOk.results[0]

\* C29: when the URL names no tag, or a tag the vocabulary does not have,
\* or the tag fetch failed, the load of the page selects nothing and arms
\* no auto-search: no request is issued by it.
C29_NoPreSelectionNoSearch ==
  (\/ urlTag = << >>
   \/ FindTagByName(TagData, urlTag[1]) = << >>
   \/ (tagsFetch = "done" /\ allTags = << >>))
    => /\ timer = "idle"
       /\ lastOp.op # "autoSearch"
       /\ lastOp.op \in {"fetchTagsOk", "fetchTagsFailed"}
            => /\ selectedTags = EmptyMap
               /\ inflight = {}
               /\ issued = 0
               /\ ~searching

\* The tags have loaded for a URL that names a tag the vocabulary does not
\* have.
C29_Witness ==
  /\ lastOp.op = "fetchTagsOk"
  /\ urlTag # << >>
  /\ FindTagByName(allTags, urlTag[1]) = << >>
  /\ Len(allTags) > 0

\* C30: every entry of selectedTags is include or exclude, one per tag id,
\* so the Map is non-empty, and the Clear button and the counters are
\* rendered, exactly when some tag is included or excluded.
C30_MapNeverStoresNone ==
  LET page == Render(allTags, selectedTags, searchResults, loading, searching,
                     expandedSections, totalRequiredTags)
      some == Len(includeNames) + Len(excludeNames) > 0
  IN  /\ \A i \in 1..Len(selectedTags) : selectedTags[i].value \in {"include", "exclude"}
      /\ Cardinality(MapKeys(selectedTags)) = Len(selectedTags)
      /\ Len(selectedTags) > 0 <=> some
      /\ ~loading => /\ page.clear <=> some
                     /\ page.counts # << >> <=> some

\* The click that takes the only selected tag from exclude to none has
\* left the Map empty and the Clear button away.
C30_Witness ==
  /\ lastOp.op = "handleTagClick"
  /\ StateOf(selectedTags, lastOp.arg) = "none"
  /\ Len(selectedTags) = 0
  /\ ~Render(allTags, selectedTags, searchResults, loading, searching,
             expandedSections, totalRequiredTags).clear

====
